---- MODULE Spec2Model ----
(***************************************************************************)
(* Model of transcribe.py: the two timestamp formatters, the four segment  *)
(* writers, derive_output_path and the control flow of main.               *)
(*                                                                         *)
(* Text (str) is a sequence of one-character strings.  A float number of   *)
(* seconds is an integer count of ticks of 1/TicksPerSecond second; with   *)
(* 128 ticks per second every value is a binary fraction, so the double    *)
(* arithmetic of the source is exact on it and timedelta's rounding to     *)
(* microseconds (half to even) is the only rounding that takes place.      *)
(***************************************************************************)
EXTENDS Integers, Sequences, FiniteSets, TLC

VARIABLES
    pc,         \* position of the running call
    args,       \* parsed command line: input, format, output
    env,        \* what the environment holds: input file, ffmpeg, old destination file
    checks,     \* precondition checks made so far, in order
    attempts,   \* backends invoked so far, in order
    err,        \* str(err) of the exception the primary backend raised
    segments,   \* the segment sequence handed to the writers
    out_path,   \* local out_path of main
    writes,     \* writer calls made so far: writer, segments, destination
    file,       \* content of the destination file
    reported,   \* path printed by "Wrote ..."
    rc,         \* value returned by main
    raised,     \* an exception left main uncaught
    outputs,    \* what each writer, called on its own, wrote for segments
    seconds,    \* argument of the timestamp formatters
    srt_stamp,  \* result of format_ts_srt(seconds)
    vtt_stamp   \* result of format_ts_vtt(seconds)

vars == <<pc, args, env, checks, attempts, err, segments, out_path, writes,
          file, reported, rc, raised, outputs, seconds, srt_stamp, vtt_stamp>>

mainVars == <<args, env, checks, attempts, err, out_path, writes, file, reported, rc, raised>>

fmtVars == <<seconds, srt_stamp, vtt_stamp>>

\* an optional value: None, or Some(x) holding x
None == <<>>

Some(x) == <<x>>

Value(o) == o[1]

(***************************************************************************)
(* Bounds                                                                  *)
(***************************************************************************)
MaxHours == 100

MaxSegments == 3

(***************************************************************************)
(* Decimal rendering: f"{n:02d}", f"{n:03d}", f"{idx}"                     *)
(***************************************************************************)
Digits == <<"0", "1", "2", "3", "4", "5", "6", "7", "8", "9">>

RECURSIVE DecimalDigits(_)
DecimalDigits(n) ==
    IF n < 10 THEN <<Digits[n + 1]>>
    ELSE DecimalDigits(n \div 10) \o <<Digits[(n % 10) + 1]>>

ZeroPad(n, width) ==
    LET d == DecimalDigits(n)
    IN  IF Len(d) >= width THEN d
        ELSE [i \in 1..(width - Len(d)) |-> "0"] \o d

(***************************************************************************)
(* timedelta(seconds=max(0.0, seconds)) and the two formatters             *)
(***************************************************************************)
TicksPerSecond == 128

\* timedelta keeps whole seconds and microseconds; the fraction is rounded
\* to the nearest microsecond, a tie going to the even microsecond
timedelta(secs) ==
    LET whole  == secs \div TicksPerSecond
        halfus == (secs % TicksPerSecond) * (2000000 \div TicksPerSecond)
        q      == halfus \div 2
        us     == IF halfus % 2 = 0 THEN q
                  ELSE IF q % 2 = 0 THEN q ELSE q + 1
    IN  IF us = 1000000
        THEN [seconds |-> whole + 1, microseconds |-> 0]
        ELSE [seconds |-> whole, microseconds |-> us]

format_ts_srt_rounding(secs) ==
    LET td            == timedelta(IF secs < 0 THEN 0 ELSE secs)
        total_seconds == td.seconds
        hours         == total_seconds \div 3600
        minutes       == (total_seconds % 3600) \div 60
        s             == total_seconds % 60
        millis        == (td.microseconds * 1000 + 500000) \div 1000000
    IN  ZeroPad(hours, 2) \o <<":">> \o ZeroPad(minutes, 2) \o <<":">>
            \o ZeroPad(s, 2) \o <<",">> \o ZeroPad(millis, 3)

format_ts_srt(secs) ==
    LET td            == timedelta(IF secs < 0 THEN 0 ELSE secs)
        total_seconds == td.seconds
        hours         == total_seconds \div 3600
        minutes       == (total_seconds % 3600) \div 60
        s             == total_seconds % 60
        millis        == (td.microseconds * 1000) \div 1000000
    IN  ZeroPad(hours, 2) \o <<":">> \o ZeroPad(minutes, 2) \o <<":">>
            \o ZeroPad(s, 2) \o <<",">> \o ZeroPad(millis, 3)

format_ts_vtt(secs) ==
    LET td            == timedelta(IF secs < 0 THEN 0 ELSE secs)
        total_seconds == td.seconds
        hours         == total_seconds \div 3600
        minutes       == (total_seconds % 3600) \div 60
        s             == total_seconds % 60
        millis        == (td.microseconds * 1000) \div 1000000
    IN  ZeroPad(hours, 2) \o <<":">> \o ZeroPad(minutes, 2) \o <<":">>
            \o ZeroPad(s, 2) \o <<".">> \o ZeroPad(millis, 3)

(***************************************************************************)
(* str.strip(): leading and trailing whitespace removed                    *)
(***************************************************************************)
Whitespace == {" ", "\t", "\n", "\r"}

RECURSIVE lstrip(_)
lstrip(s) ==
    IF s # <<>> /\ Head(s) \in Whitespace THEN lstrip(Tail(s)) ELSE s

RECURSIVE rstrip(_)
rstrip(s) ==
    IF s # <<>> /\ s[Len(s)] \in Whitespace
    THEN rstrip(SubSeq(s, 1, Len(s) - 1))
    ELSE s

strip(s) == rstrip(lstrip(s))

Arrow == <<" ", "-", "-", ">", " ">>

(***************************************************************************)
(* The writers: the text each one writes for a segment sequence            *)
(***************************************************************************)
RECURSIVE write_txt_unfiltered(_)
write_txt_unfiltered(segs) ==
    IF segs = <<>> THEN <<>>
    ELSE strip(Head(segs).text) \o <<"\n">> \o write_txt_unfiltered(Tail(segs))

RECURSIVE write_txt(_)
write_txt(segs) ==
    IF segs = <<>> THEN <<>>
    ELSE LET text == strip(Head(segs).text)
         IN  (IF text # <<>> THEN text \o <<"\n">> ELSE <<>>)
                \o write_txt(Tail(segs))

\* the loop of write_srt from the idx-th element of enumerate(segments, start=1)
RECURSIVE srt_blocks(_, _)
srt_blocks(segs, idx) ==
    IF idx > Len(segs) THEN <<>>
    ELSE LET seg   == segs[idx]
             start == format_ts_srt(seg.start)
             end   == format_ts_srt(seg.end)
             text  == strip(seg.text)
         IN  (IF text = <<>> THEN <<>>
              ELSE DecimalDigits(idx) \o <<"\n">> \o start \o Arrow \o end
                       \o <<"\n">> \o text \o <<"\n", "\n">>)
                \o srt_blocks(segs, idx + 1)

write_srt(segs) == srt_blocks(segs, 1)

RECURSIVE vtt_blocks(_)
vtt_blocks(segs) ==
    IF segs = <<>> THEN <<>>
    ELSE LET seg   == Head(segs)
             start == format_ts_vtt(seg.start)
             end   == format_ts_vtt(seg.end)
             text  == strip(seg.text)
         IN  (IF text = <<>> THEN <<>>
              ELSE start \o Arrow \o end \o <<"\n">> \o text \o <<"\n", "\n">>)
                \o vtt_blocks(Tail(segs))

write_vtt_bare_when_empty(segs) ==
    IF segs = <<>> THEN <<>>
    ELSE <<"W", "E", "B", "V", "T", "T", "\n", "\n">> \o vtt_blocks(segs)

write_vtt(segs) == <<"W", "E", "B", "V", "T", "T", "\n", "\n">> \o vtt_blocks(segs)

(***************************************************************************)
(* json.dump(segments, f, ensure_ascii=False, indent=2)                    *)
(***************************************************************************)
\* decimal digits of the fraction r / TicksPerSecond, r < TicksPerSecond
RECURSIVE FractionDigits(_)
FractionDigits(r) ==
    IF r = 0 THEN <<>>
    ELSE <<Digits[((r * 10) \div TicksPerSecond) + 1]>>
            \o FractionDigits((r * 10) % TicksPerSecond)

\* float.__repr__ of a number of seconds
float_repr(x) ==
    LET a == IF x < 0 THEN -x ELSE x
        f == FractionDigits(a % TicksPerSecond)
    IN  (IF x < 0 THEN <<"-">> ELSE <<>>)
            \o DecimalDigits(a \div TicksPerSecond) \o <<".">>
            \o (IF f = <<>> THEN <<"0">> ELSE f)

\* a string literal: quotes, backslashes and control characters escaped,
\* everything else, non-ASCII included, written as it is
json_escape(c) ==
    CASE c = "\"" -> <<"\\", "\"">>
      [] c = "\\" -> <<"\\", "\\">>
      [] c = "\n" -> <<"\\", "n">>
      [] c = "\r" -> <<"\\", "r">>
      [] c = "\t" -> <<"\\", "t">>
      [] OTHER    -> <<c>>

RECURSIVE json_chars(_)
json_chars(s) ==
    IF s = <<>> THEN <<>> ELSE json_escape(Head(s)) \o json_chars(Tail(s))

json_string(s) == <<"\"">> \o json_chars(s) \o <<"\"">>

Indent(n) == [i \in 1..n |-> " "]

json_key(k) == Indent(4) \o <<"\"">> \o k \o <<"\"", ":", " ">>

json_object(seg) ==
    Indent(2) \o <<"{", "\n">>
        \o json_key(<<"s", "t", "a", "r", "t">>) \o float_repr(seg.start) \o <<",", "\n">>
        \o json_key(<<"e", "n", "d">>) \o float_repr(seg.end) \o <<",", "\n">>
        \o json_key(<<"t", "e", "x", "t">>) \o json_string(seg.text) \o <<"\n">>
        \o Indent(2) \o <<"}">>

RECURSIVE json_items(_)
json_items(segs) ==
    IF Len(segs) = 1 THEN json_object(Head(segs))
    ELSE json_object(Head(segs)) \o <<",", "\n">> \o json_items(Tail(segs))

write_json_filtering(segs) ==
    LET kept == SelectSeq(segs, LAMBDA seg : strip(seg.text) # <<>>)
    IN  IF kept = <<>> THEN <<"[", "]">>
        ELSE <<"[", "\n">> \o json_items(kept) \o <<"\n", "]">>

write_json(segs) ==
    IF segs = <<>> THEN <<"[", "]">>
    ELSE <<"[", "\n">> \o json_items(segs) \o <<"\n", "]">>

(***************************************************************************)
(* os.path.splitext and derive_output_path                                 *)
(***************************************************************************)
\* str.rfind: the last index of c in p, counted from 1, and 0 when absent
RECURSIVE rfind(_, _)
rfind(p, c) ==
    IF p = <<>> THEN 0
    ELSE IF p[Len(p)] = c THEN Len(p)
    ELSE rfind(SubSeq(p, 1, Len(p) - 1), c)

\* the extension starts at the last dot of the file name, unless only dots
\* come before it in the file name
splitext(p) ==
    LET sepIndex == rfind(p, "/")
        dotIndex == rfind(p, ".")
    IN  IF dotIndex > sepIndex
           /\ \E i \in (sepIndex + 1)..(dotIndex - 1) : p[i] # "."
        THEN <<SubSeq(p, 1, dotIndex - 1), SubSeq(p, dotIndex, Len(p))>>
        ELSE <<p, <<>>>>

FormatChars(fmt) ==
    CASE fmt = "txt"  -> <<"t", "x", "t">>
      [] fmt = "srt"  -> <<"s", "r", "t">>
      [] fmt = "vtt"  -> <<"v", "t", "t">>
      [] fmt = "json" -> <<"j", "s", "o", "n">>

derive_output_path(input_path, fmt) ==
    LET base == splitext(input_path)[1]
    IN  base \o <<".">> \o FormatChars(fmt)

(***************************************************************************)
(* Inputs                                                                  *)
(***************************************************************************)
Formats == {"txt", "srt", "vtt", "json"}

Writers == {"write_txt", "write_json", "write_srt", "write_vtt"}

InputPaths == {<<"a", ".", "m", "p", "3">>, <<"a">>, <<".", "a">>, <<"d", ".", "x", "/", "a", ".", "b", ".", "c">>}

\* --output: absent, given empty, given
Outputs == {None, Some(<<>>), Some(<<"o", ".", "x">>)}

OldFiles == {None, Some(<<"o", "l", "d">>)}

NotInstalled == <<"N", "o", " ", "m", "o", "d", "u", "l", "e", " ", "n", "a", "m", "e", "d", " ", "'", "f", "a", "s", "t", "e", "r", "_", "w", "h", "i", "s", "p", "e", "r", "'">>

DependencyMissing == <<"l", "o", "a", "d", " ", "f", "a", "i", "l", "e", "d", ":", " ", "N", "o", " ", "m", "o", "d", "u", "l", "e", " ", "n", "a", "m", "e", "d", " ", "'", "a", "v", "'">>

\* str(err) of what a backend raises
Messages == {NotInstalled, DependencyMissing, <<"o", "u", "t", " ", "o", "f", " ", "m", "e", "m", "o", "r", "y">>, <<"N", "o", " ", "s", "u", "c", "h", " ", "f", "i", "l", "e">>}

\* sample segments: start and end in ticks, text
SegmentSamples ==
    { [start |-> 0, end |-> 192, text |-> <<"h", "e", "l", "l", "o">>],
      [start |-> 192, end |-> 256, text |-> <<" ", " ">>],
      [start |-> 256, end |-> 256, text |-> <<>>],
      [start |-> 256, end |-> 468673, text |-> <<" ", "w", "o", "r", "l", "d", "\n">>],
      [start |-> -64, end |-> 64, text |-> <<"a", "\n", "\"", "\\", "é">>],
      [start |-> 468673, end |-> 46080000, text |-> <<"\t", "b", " ", "c">>] }

\* what a backend returns
BackendResults ==
    { <<>>,
      <<[start |-> 0, end |-> 192, text |-> <<"h", "e", "l", "l", "o">>],
        [start |-> 192, end |-> 256, text |-> <<" ", " ">>],
        [start |-> 256, end |-> 468673, text |-> <<" ", "w", "o", "r", "l", "d", "\n">>]>>,
      <<[start |-> -64, end |-> 64, text |-> <<"a", "\n", "\"", "\\", "é">>]>> }

SecondsSamples ==
    { sign * ((h * 3600 + m * 60 + s) * TicksPerSecond + f) :
        sign \in {1, -1}, h \in {0, 1, 24, MaxHours - 1, MaxHours},
        m \in {0, 59}, s \in {0, 59}, f \in 0..(TicksPerSecond - 1) }

(***************************************************************************)
(* main                                                                    *)
(***************************************************************************)
NoOutputs == [w \in Writers |-> None]

IdleFormat == seconds = 0 /\ srt_stamp = None /\ vtt_stamp = None

Init ==
    /\ pc = "check_input"
    /\ args \in [input : InputPaths, format : Formats, output : Outputs]
    /\ env \in [input_exists : BOOLEAN, ffmpeg : BOOLEAN, old_file : OldFiles]
    /\ file = env.old_file
    /\ checks = <<>>
    /\ attempts = <<>>
    /\ err = None
    /\ segments = None
    /\ out_path = None
    /\ writes = <<>>
    /\ reported = None
    /\ rc = None
    /\ raised = FALSE
    /\ outputs = NoOutputs
    /\ IdleFormat

\* if not os.path.exists(args.input): return 2
CheckInput ==
    /\ pc = "check_input"
    /\ checks' = Append(checks, "input")
    /\ IF env.input_exists
       THEN pc' = "check_ffmpeg" /\ rc' = rc
       ELSE pc' = "done" /\ rc' = Some(2)
    /\ UNCHANGED <<args, env, attempts, err, segments, out_path, writes, file,
                   reported, raised, outputs, fmtVars>>

CheckFfmpegIgnored ==
    /\ pc = "check_ffmpeg"
    /\ checks' = Append(checks, "ffmpeg")
    /\ pc' = "out_path"
    /\ UNCHANGED <<args, env, attempts, err, segments, out_path, writes, file,
                   reported, rc, raised, outputs, fmtVars>>

\* if which("ffmpeg") is None: return 2
CheckFfmpeg ==
    /\ pc = "check_ffmpeg"
    /\ checks' = Append(checks, "ffmpeg")
    /\ IF env.ffmpeg
       THEN pc' = "out_path" /\ rc' = rc
       ELSE pc' = "done" /\ rc' = Some(2)
    /\ UNCHANGED <<args, env, attempts, err, segments, out_path, writes, file,
                   reported, raised, outputs, fmtVars>>

\* a str is true when it is not empty, None is false
Truthy(v) == v # None /\ Value(v) # <<>>

OutPathIgnoringOutput(a) == derive_output_path(a.input, a.format)

\* args.output or derive_output_path(args.input, args.format)
OutPath(a) ==
    IF Truthy(a.output) THEN Value(a.output)
    ELSE derive_output_path(a.input, a.format)

ComputeOutPathTruncating ==
    /\ pc = "out_path"
    /\ out_path' = Some(OutPath(args))
    /\ file' = Some(<<>>)
    /\ pc' = "primary"
    /\ UNCHANGED <<args, env, checks, attempts, err, segments, writes,
                   reported, rc, raised, outputs, fmtVars>>

ComputeOutPath ==
    /\ pc = "out_path"
    /\ out_path' = Some(OutPath(args))
    /\ pc' = "primary"
    /\ UNCHANGED <<args, env, checks, attempts, err, segments, writes, file,
                   reported, rc, raised, outputs, fmtVars>>

\* sub in s
Contains(s, sub) ==
    \E i \in 1..(Len(s) - Len(sub) + 1) : SubSeq(s, i, i + Len(sub) - 1) = sub

FallbackAlways(message) == TRUE

\* "No module named" in str(err)
Fallback(message) == Contains(message, <<"N", "o", " ", "m", "o", "d", "u", "l", "e", " ", "n", "a", "m", "e", "d">>)

PrimaryReturns ==
    /\ pc = "primary"
    /\ \E result \in BackendResults :
        /\ attempts' = Append(attempts, [backend |-> "faster_whisper", result |-> Some(result)])
        /\ segments' = Some(result)
    /\ pc' = "dispatch"
    /\ UNCHANGED <<args, env, checks, err, out_path, writes, file, reported, rc,
                   raised, outputs, fmtVars>>

PrimaryRaises ==
    /\ pc = "primary"
    /\ \E message \in Messages :
        /\ attempts' = Append(attempts, [backend |-> "faster_whisper", result |-> None])
        /\ err' = Some(message)
        /\ IF Fallback(message)
           THEN pc' = "secondary" /\ rc' = rc
           ELSE pc' = "done" /\ rc' = Some(1)
    /\ UNCHANGED <<args, env, checks, segments, out_path, writes, file, reported,
                   raised, outputs, fmtVars>>

SecondaryReturns ==
    /\ pc = "secondary"
    /\ \E result \in BackendResults :
        /\ attempts' = Append(attempts, [backend |-> "openai_whisper", result |-> Some(result)])
        /\ segments' = Some(result)
    /\ pc' = "dispatch"
    /\ UNCHANGED <<args, env, checks, err, out_path, writes, file, reported, rc,
                   raised, outputs, fmtVars>>

SecondaryRaisesReturning0 ==
    /\ pc = "secondary"
    /\ \E message \in Messages :
        attempts' = Append(attempts, [backend |-> "openai_whisper", result |-> None])
    /\ pc' = "done"
    /\ rc' = Some(0)
    /\ UNCHANGED <<args, env, checks, err, segments, out_path, writes, file,
                   reported, raised, outputs, fmtVars>>

SecondaryRaises ==
    /\ pc = "secondary"
    /\ \E message \in Messages :
        attempts' = Append(attempts, [backend |-> "openai_whisper", result |-> None])
    /\ pc' = "done"
    /\ rc' = Some(1)
    /\ UNCHANGED <<args, env, checks, err, segments, out_path, writes, file,
                   reported, raised, outputs, fmtVars>>

\* with open(out_path, "w") as f: f.write(...), text being all the writer
\* writes.  open can fail, which leaves the destination as it was; a fault
\* after open leaves the part of text written before it; either exception
\* leaves main uncaught.
Serialize(writer, text) ==
    /\ writes' = Append(writes, [writer |-> writer, segments |-> Value(segments),
                                 path |-> Value(out_path)])
    /\ \/ /\ file' = Some(text)
          /\ pc' = "report"
          /\ raised' = raised
       \/ /\ file' = file
          /\ pc' = "done"
          /\ raised' = TRUE
       \/ /\ \E n \in 0..(Len(text) - 1) : file' = Some(SubSeq(text, 1, n))
          /\ pc' = "done"
          /\ raised' = TRUE
    /\ UNCHANGED <<args, env, checks, attempts, err, segments, out_path, reported,
                   rc, outputs, fmtVars>>

DispatchTxt ==
    /\ pc = "dispatch"
    /\ args.format = "txt"
    /\ Serialize("write_txt", write_txt(Value(segments)))

DispatchJson ==
    /\ pc = "dispatch"
    /\ args.format = "json"
    /\ Serialize("write_json", write_json(Value(segments)))

DispatchSrt ==
    /\ pc = "dispatch"
    /\ args.format = "srt"
    /\ Serialize("write_srt", write_srt(Value(segments)))

DispatchVtt ==
    /\ pc = "dispatch"
    /\ args.format = "vtt"
    /\ Serialize("write_vtt", write_vtt(Value(segments)))

\* print(f"Wrote {out_path}"); return 0
Report ==
    /\ pc = "report"
    /\ reported' = out_path
    /\ rc' = Some(0)
    /\ pc' = "done"
    /\ UNCHANGED <<args, env, checks, attempts, err, segments, out_path, writes,
                   file, raised, outputs, fmtVars>>

Next ==
    \/ CheckInput
    \/ CheckFfmpeg
    \/ ComputeOutPath
    \/ PrimaryReturns
    \/ PrimaryRaises
    \/ SecondaryReturns
    \/ SecondaryRaises
    \/ DispatchTxt
    \/ DispatchJson
    \/ DispatchSrt
    \/ DispatchVtt
    \/ Report

Spec == Init /\ [][Next]_vars

\* the exit status of the process: SystemExit(main()), and 1 when an
\* exception ends the interpreter
ExitStatus == IF raised THEN Some(1) ELSE rc

(***************************************************************************)
(* The writers called on their own, on every segment sequence of up to     *)
(* MaxSegments sample segments                                             *)
(***************************************************************************)
IdleMain ==
    /\ args = [input |-> <<>>, format |-> "txt", output |-> None]
    /\ env = [input_exists |-> TRUE, ffmpeg |-> TRUE, old_file |-> None]
    /\ file = None
    /\ checks = <<>>
    /\ attempts = <<>>
    /\ err = None
    /\ out_path = None
    /\ writes = <<>>
    /\ reported = None
    /\ rc = None
    /\ raised = FALSE

InitWriters ==
    /\ pc = "segments"
    /\ segments = Some(<<>>)
    /\ outputs = NoOutputs
    /\ IdleMain
    /\ IdleFormat

AppendSegment ==
    /\ pc = "segments"
    /\ outputs = NoOutputs
    /\ Len(Value(segments)) < MaxSegments
    /\ \E seg \in SegmentSamples : segments' = Some(Append(Value(segments), seg))
    /\ UNCHANGED <<pc, mainVars, outputs, fmtVars>>

CallWriteTxt ==
    /\ pc = "segments"
    /\ outputs["write_txt"] = None
    /\ outputs' = [outputs EXCEPT !["write_txt"] = Some(write_txt(Value(segments)))]
    /\ UNCHANGED <<pc, mainVars, segments, fmtVars>>

CallWriteJson ==
    /\ pc = "segments"
    /\ outputs["write_json"] = None
    /\ outputs' = [outputs EXCEPT !["write_json"] = Some(write_json(Value(segments)))]
    /\ UNCHANGED <<pc, mainVars, segments, fmtVars>>

CallWriteSrt ==
    /\ pc = "segments"
    /\ outputs["write_srt"] = None
    /\ outputs' = [outputs EXCEPT !["write_srt"] = Some(write_srt(Value(segments)))]
    /\ UNCHANGED <<pc, mainVars, segments, fmtVars>>

CallWriteVtt ==
    /\ pc = "segments"
    /\ outputs["write_vtt"] = None
    /\ outputs' = [outputs EXCEPT !["write_vtt"] = Some(write_vtt(Value(segments)))]
    /\ UNCHANGED <<pc, mainVars, segments, fmtVars>>

NextWriters ==
    \/ AppendSegment
    \/ CallWriteTxt
    \/ CallWriteJson
    \/ CallWriteSrt
    \/ CallWriteVtt

SpecWriters == InitWriters /\ [][NextWriters]_vars

(***************************************************************************)
(* The formatters called on their own                                      *)
(***************************************************************************)
InitFormat ==
    /\ pc = "format"
    /\ seconds \in SecondsSamples
    /\ srt_stamp = None
    /\ vtt_stamp = None
    /\ segments = None
    /\ outputs = NoOutputs
    /\ IdleMain

CallFormatSrt ==
    /\ pc = "format"
    /\ srt_stamp = None
    /\ srt_stamp' = Some(format_ts_srt(seconds))
    /\ UNCHANGED <<pc, mainVars, segments, outputs, seconds, vtt_stamp>>

CallFormatVtt ==
    /\ pc = "format"
    /\ vtt_stamp = None
    /\ vtt_stamp' = Some(format_ts_vtt(seconds))
    /\ UNCHANGED <<pc, mainVars, segments, outputs, seconds, srt_stamp>>

NextFormat == CallFormatSrt \/ CallFormatVtt

SpecFormat == InitFormat /\ [][NextFormat]_vars

(***************************************************************************)
(* Reading back what the writers wrote                                     *)
(***************************************************************************)
\* the segments whose trimmed text is not empty
Kept(segs) == SelectSeq(segs, LAMBDA seg : strip(seg.text) # <<>>)

KeptTexts(segs) == [i \in 1..Len(Kept(segs)) |-> strip(Kept(segs)[i].text)]

\* first index of x in s, 0 when absent
IndexOf(s, x) ==
    IF \E i \in 1..Len(s) : s[i] = x
    THEN CHOOSE i \in 1..Len(s) : s[i] = x /\ \A j \in 1..(i - 1) : s[j] # x
    ELSE 0

\* the lines of a text, each ended by a newline (a last line may lack it)
RECURSIVE SplitLines(_)
SplitLines(s) ==
    IF s = <<>> THEN <<>>
    ELSE LET i == IndexOf(s, "\n")
         IN  IF i = 0 THEN <<s>>
             ELSE <<SubSeq(s, 1, i - 1)>> \o SplitLines(SubSeq(s, i + 1, Len(s)))

\* the blocks of a subtitle file: runs of lines, each ended by an empty line
RECURSIVE Blocks(_)
Blocks(ls) ==
    IF ls = <<>> THEN <<>>
    ELSE LET i == IndexOf(ls, <<>>)
         IN  IF i = 0 THEN <<ls>>
             ELSE <<SubSeq(ls, 1, i - 1)>> \o Blocks(SubSeq(ls, i + 1, Len(ls)))

RECURSIVE Concat(_)
Concat(ss) == IF ss = <<>> THEN <<>> ELSE Head(ss) \o Concat(Tail(ss))

IsNumber(s) == s # <<>> /\ \A i \in 1..Len(s) : \E d \in 1..10 : Digits[d] = s[i]

DigitValue(c) == (CHOOSE d \in 1..10 : Digits[d] = c) - 1

RECURSIVE ParseNat(_)
ParseNat(s) ==
    IF s = <<>> THEN 0
    ELSE ParseNat(SubSeq(s, 1, Len(s) - 1)) * 10 + DigitValue(s[Len(s)])

HasLineBreak(s) == \E i \in 1..Len(s) : s[i] = "\n"

Written(w) == outputs[w] # None

\* C1: write_srt numbers the blocks it writes 1, 2, ..., k without a gap, k
\* being the number of segments whose trimmed text is not empty: a skipped
\* segment uses up no index.
C1_SrtIndicesGapFree ==
    Written("write_srt") =>
        LET b == Blocks(SplitLines(Value(outputs["write_srt"])))
        IN  /\ Len(b) = Len(Kept(Value(segments)))
            /\ \A i \in 1..Len(b) : IsNumber(b[i][1]) /\ ParseNat(b[i][1]) = i

\* C6 as stated: write_txt writes exactly one newline-terminated line per
\* segment whose trimmed text is not empty, the line holding that trimmed
\* text, in the order of the segments, and nothing for the other segments.
C6_TxtOneLinePerSegment ==
    Written("write_txt") =>
        LET out == Value(outputs["write_txt"])
        IN  /\ SplitLines(out) = KeptTexts(Value(segments))
            /\ out # <<>> => out[Len(out)] = "\n"

\* C6 amended: write_txt writes, in the order of the segments, the trimmed
\* text of each segment whose trimmed text is not empty followed by one
\* newline, and nothing for the other segments; that is one line per such
\* segment when no trimmed text holds a line break.
C6_TxtTrimmedTextPerSegment ==
    Written("write_txt") =>
        LET out  == Value(outputs["write_txt"])
            kept == KeptTexts(Value(segments))
        IN  /\ out = Concat([i \in 1..Len(kept) |-> kept[i] \o <<"\n">>])
            /\ (\A i \in 1..Len(kept) : ~HasLineBreak(kept[i]))
                  => SplitLines(out) = kept

C6_Witness ==
    /\ Written("write_txt")
    /\ Len(Value(segments)) = 3
    /\ Len(Kept(Value(segments))) = 2
    /\ strip(Value(segments)[2].text) = <<>>
    /\ Value(segments)[2].text # <<>>
    /\ \A i \in {1, 3} : ~HasLineBreak(strip(Value(segments)[i].text))

\* the text lines of each block, after its first skip lines
BlockTexts(text, skip) ==
    LET b == Blocks(SplitLines(text))
    IN  [i \in 1..Len(b) |-> SubSeq(b[i], skip + 1, Len(b[i]))]

VttHeader == <<"W", "E", "B", "V", "T", "T", "\n", "\n">>

\* a stamp with its comma or period turned into a period
WithPeriod(stamp) ==
    [i \in 1..Len(stamp) |-> IF stamp[i] = "," THEN "." ELSE stamp[i]]

\* C9: write_vtt writes the header WEBVTT and an empty line first, whatever
\* the segments, then for each segment whose trimmed text is not empty, in
\* order, a line with the start and end stamps (period before the
\* milliseconds) joined by the arrow, the trimmed text and an empty line,
\* with no index line; it emits the same segments in the same order as
\* write_srt and write_txt do for the same segments.
C9_VttBlocks ==
    Written("write_vtt") =>
        LET out  == Value(outputs["write_vtt"])
            body == SubSeq(out, Len(VttHeader) + 1, Len(out))
            kept == Kept(Value(segments))
            b    == Blocks(SplitLines(body))
        IN  /\ Len(out) >= Len(VttHeader)
            /\ SubSeq(out, 1, Len(VttHeader)) = VttHeader
            /\ body = Concat([i \in 1..Len(kept) |->
                        format_ts_vtt(kept[i].start) \o Arrow \o format_ts_vtt(kept[i].end)
                            \o <<"\n">> \o strip(kept[i].text) \o <<"\n", "\n">>])
            /\ Len(b) = Len(kept)
            /\ \A i \in 1..Len(b) :
                /\ ~IsNumber(b[i][1])
                /\ \E k \in 1..Len(b[i][1]) :
                    /\ SubSeq(b[i][1], k, k + Len(Arrow) - 1) = Arrow
                    /\ SubSeq(b[i][1], k - 4, k - 4) = <<".">>
                    /\ SubSeq(b[i][1], Len(b[i][1]) - 3, Len(b[i][1]) - 3) = <<".">>
            /\ Written("write_srt") =>
                LET srt == Blocks(SplitLines(Value(outputs["write_srt"])))
                IN  /\ BlockTexts(Value(outputs["write_srt"]), 2) = BlockTexts(body, 1)
                    /\ \A i \in 1..Len(srt) : WithPeriod(srt[i][2]) = b[i][1]
            /\ Written("write_txt") =>
                SplitLines(Value(outputs["write_txt"])) = Concat(BlockTexts(body, 1))

C9_Witness ==
    /\ Written("write_vtt")
    /\ Written("write_srt")
    /\ Written("write_txt")
    /\ Len(Value(segments)) = 3
    /\ Len(Kept(Value(segments))) = 2
    /\ strip(Value(segments)[2].text) = <<>>

C9_WitnessEmpty ==
    /\ Written("write_vtt")
    /\ Value(segments) = <<>>

(***************************************************************************)
(* Decoding JSON text (json.load), by position: each parser takes the text *)
(* and the position it starts at and gives <<value, next position>>        *)
(***************************************************************************)
RECURSIVE SkipSpace(_, _)
SkipSpace(s, i) ==
    IF i <= Len(s) /\ s[i] \in {" ", "\n", "\t", "\r"} THEN SkipSpace(s, i + 1) ELSE i

Unescape(c) ==
    CASE c = "n" -> "\n"
      [] c = "t" -> "\t"
      [] c = "r" -> "\r"
      [] OTHER   -> c

\* s[i] is the character after the opening quote
RECURSIVE ScanString(_, _, _)
ScanString(s, i, acc) ==
    IF s[i] = "\"" THEN <<acc, i + 1>>
    ELSE IF s[i] = "\\" THEN ScanString(s, i + 2, Append(acc, Unescape(s[i + 1])))
    ELSE ScanString(s, i + 1, Append(acc, s[i]))

RECURSIVE DigitsEnd(_, _)
DigitsEnd(s, i) ==
    IF i <= Len(s) /\ IsNumber(<<s[i]>>) THEN DigitsEnd(s, i + 1) ELSE i

RECURSIVE Pow10(_)
Pow10(k) == IF k = 0 THEN 1 ELSE 10 * Pow10(k - 1)

\* a number, as ticks: sign, whole part and, after a point, the fraction
ScanNumber(s, i) ==
    LET neg   == s[i] = "-"
        a     == IF neg THEN i + 1 ELSE i
        b     == DigitsEnd(s, a)
        point == b <= Len(s) /\ s[b] = "."
        c     == IF point THEN DigitsEnd(s, b + 1) ELSE b
        frac  == IF point THEN SubSeq(s, b + 1, c - 1) ELSE <<>>
        ticks == ParseNat(SubSeq(s, a, b - 1)) * TicksPerSecond
                    + (ParseNat(frac) * TicksPerSecond) \div Pow10(Len(frac))
    IN  <<IF neg THEN -ticks ELSE ticks, c>>

ScanValue(s, i) ==
    IF s[i] = "\"" THEN ScanString(s, i + 1, <<>>) ELSE ScanNumber(s, i)

\* the members of an object, s[i] being the first character after "{" or ","
RECURSIVE ScanMembers(_, _, _)
ScanMembers(s, i, acc) ==
    LET k     == SkipSpace(s, i)
        key   == ScanString(s, k + 1, <<>>)
        colon == SkipSpace(s, key[2])
        val   == ScanValue(s, SkipSpace(s, colon + 1))
        next  == SkipSpace(s, val[2])
        all   == Append(acc, <<key[1], val[1]>>)
    IN  IF s[next] = "," THEN ScanMembers(s, next + 1, all) ELSE <<all, next + 1>>

Member(members, key) ==
    members[CHOOSE i \in 1..Len(members) : members[i][1] = key][2]

ToSegment(members) ==
    [start |-> Member(members, <<"s", "t", "a", "r", "t">>),
     end   |-> Member(members, <<"e", "n", "d">>),
     text  |-> Member(members, <<"t", "e", "x", "t">>)]

\* the elements of an array of objects, s[i] being the first character
\* after "[" or ","
RECURSIVE ScanElements(_, _, _)
ScanElements(s, i, acc) ==
    LET k == SkipSpace(s, i)
    IN  IF s[k] = "]" THEN acc
        ELSE LET obj  == ScanMembers(s, k + 1, <<>>)
                 next == SkipSpace(s, obj[2])
                 all  == Append(acc, ToSegment(obj[1]))
             IN  IF s[next] = "," THEN ScanElements(s, next + 1, all) ELSE all

json_load(s) == ScanElements(s, SkipSpace(s, 1) + 1, <<>>)

\* C7: decoding what write_json wrote gives back the segment sequence it was
\* given: as many segments, in the same order, with the same start, end and
\* untrimmed text, the segments whose text is empty or only whitespace
\* included.
C7_JsonRoundTrip ==
    Written("write_json") => json_load(Value(outputs["write_json"])) = Value(segments)

C7_Witness ==
    /\ Written("write_json")
    /\ Len(Value(segments)) = 3
    /\ \E i \in 1..3 : Value(segments)[i].text = <<>>
    /\ \E i \in 1..3 : Value(segments)[i].text # <<>> /\ strip(Value(segments)[i].text) = <<>>
    /\ \E i \in 1..3 : Value(segments)[i].text # strip(Value(segments)[i].text)
                        /\ strip(Value(segments)[i].text) # <<>>

(***************************************************************************)
(* The formatters                                                          *)
(***************************************************************************)
\* stamp reads back as the clock fields of secs: hours:minutes:seconds, sep,
\* milliseconds, with two, two and three digits after the hours
StampOf(stamp, sep, secs) ==
    LET n     == Len(stamp)
        x     == IF secs < 0 THEN 0 ELSE secs
        whole == x \div TicksPerSecond
        hh    == SubSeq(stamp, 1, n - 10)
        mm    == SubSeq(stamp, n - 8, n - 7)
        ss    == SubSeq(stamp, n - 5, n - 4)
        ms    == SubSeq(stamp, n - 2, n)
    IN  /\ n >= 12
        /\ stamp[n - 9] = ":" /\ stamp[n - 6] = ":" /\ stamp[n - 3] = sep
        /\ IsNumber(hh) /\ IsNumber(mm) /\ IsNumber(ss) /\ IsNumber(ms)
        /\ ParseNat(hh) = whole \div 3600
        /\ ParseNat(mm) \in 0..59
        /\ ParseNat(ss) \in 0..59
        /\ ParseNat(hh) * 3600 + ParseNat(mm) * 60 + ParseNat(ss) = whole
        /\ ParseNat(ms) \in 0..999
        /\ ParseNat(ms) = ((x % TicksPerSecond) * 1000) \div TicksPerSecond
        /\ whole \div 3600 < 100 => n = 12

C8_WitnessClamped ==
    /\ srt_stamp # None
    /\ vtt_stamp # None
    /\ seconds < 0

(***************************************************************************)
(* What main did, read from its record                                    *)
(***************************************************************************)
Attempted(backend) == \E i \in 1..Len(attempts) : attempts[i].backend = backend

TimesAttempted(backend) ==
    Cardinality({i \in 1..Len(attempts) : attempts[i].backend = backend})

PrimaryFailed ==
    /\ attempts # <<>>
    /\ attempts[1].backend = "faster_whisper"
    /\ attempts[1].result = None

PrimaryReturned ==
    /\ attempts # <<>>
    /\ attempts[1].backend = "faster_whisper"
    /\ attempts[1].result # None

\* the failures that say a module of the primary backend is not installed
NotInstalledFailures == {NotInstalled, DependencyMissing}

PrimaryNotInstalled == PrimaryFailed /\ err # None /\ Value(err) \in NotInstalledFailures

TranscriptionFailed ==
    /\ PrimaryFailed
    /\ \/ ~PrimaryNotInstalled
       \/ Len(attempts) = 2 /\ attempts[2].result = None

TranscriptionSucceeded == attempts # <<>> /\ attempts[Len(attempts)].result # None

PreconditionsPass == env.input_exists /\ env.ffmpeg

\* C2: the secondary backend is attempted if and only if the primary was
\* attempted first and failed with a failure that says it is not installed;
\* any other failure of the primary ends the run with 1 and the secondary
\* never invoked; after the primary returned, the secondary is never invoked.
C2_Fallback ==
    /\ Attempted("openai_whisper") =>
        /\ Len(attempts) = 2
        /\ attempts[2].backend = "openai_whisper"
        /\ PrimaryNotInstalled
    /\ PrimaryNotInstalled => pc = "secondary" \/ Attempted("openai_whisper")
    /\ (PrimaryFailed /\ ~PrimaryNotInstalled) =>
        /\ pc = "done"
        /\ rc = Some(1)
        /\ ~Attempted("openai_whisper")
    /\ PrimaryReturned => ~Attempted("openai_whisper")

C2_Witness ==
    /\ pc = "done"
    /\ Attempted("openai_whisper")
    /\ rc = Some(0)

\* C3: main returns 2 when the input path does not exist, and 2 when it
\* exists and ffmpeg is not on PATH; the input is checked before ffmpeg; in
\* both cases no backend is invoked and no writer is called.
C3_Preconditions ==
    /\ checks \in {<<>>, <<"input">>, <<"input", "ffmpeg">>}
    /\ (pc = "done" /\ ~env.input_exists) => rc = Some(2) /\ checks = <<"input">>
    /\ (pc = "done" /\ env.input_exists /\ ~env.ffmpeg) =>
        rc = Some(2) /\ checks = <<"input", "ffmpeg">>
    /\ (pc # "done" /\ ~PreconditionsPass) => pc \in {"check_input", "check_ffmpeg"}
    /\ (rc = Some(2) \/ ~PreconditionsPass) =>
        /\ attempts = <<>>
        /\ writes = <<>>
        /\ file = env.old_file

C3_Witness ==
    /\ pc = "done"
    /\ env.input_exists
    /\ ~env.ffmpeg
    /\ rc = Some(2)

ExitCodes == {Some(0), Some(1), Some(2)}

\* how far main has come
Rank(p) ==
    CASE p = "check_input"  -> 0
      [] p = "check_ffmpeg" -> 1
      [] p = "out_path"     -> 2
      [] p = "primary"      -> 3
      [] p = "secondary"    -> 4
      [] p = "dispatch"     -> 5
      [] p = "report"       -> 6
      [] p = "done"         -> 7

\* every step takes main further, so no run goes on for ever
Advances == [][Rank(pc') > Rank(pc)]_vars

StatedExits ==
    /\ TimesAttempted("faster_whisper") <= 1
    /\ TimesAttempted("openai_whisper") <= 1
    /\ (pc = "done" /\ PreconditionsPass) =>
        /\ rc = Some(1) <=> TranscriptionFailed
        /\ ~TranscriptionFailed => rc = Some(0)
    /\ pc = "done" => ExitStatus \in ExitCodes
    /\ pc # "done" => ENABLED Next

\* C4 as stated: once both checks pass, main returns 1 exactly when the
\* transcription fails and 0 otherwise; each backend is attempted at most
\* once; every run goes on until it ends, with an exit code among 0, 1
\* and 2.
C4_ExitCodes == []StatedExits /\ Advances

AmendedExits ==
    /\ TimesAttempted("faster_whisper") <= 1
    /\ TimesAttempted("openai_whisper") <= 1
    /\ (pc = "done" /\ PreconditionsPass) =>
        /\ rc = Some(1) <=> TranscriptionFailed
        /\ rc = Some(0) <=> (TranscriptionSucceeded /\ ~raised)
        /\ raised <=> (TranscriptionSucceeded /\ rc = None)
        /\ raised => writes # <<>>
    /\ pc = "done" => ExitStatus \in ExitCodes
    /\ pc # "done" => ENABLED Next

\* C4 amended: once both checks pass, main returns 1 exactly when the
\* transcription fails, and returns 0 exactly when it succeeds and the
\* writer completes; when the writer raises, the exception leaves main
\* uncaught, main returns nothing and the process ends with status 1; each
\* backend is attempted at most once; every run goes on until it ends, with
\* an exit status among 0, 1 and 2.
C4_ExitCodesAmended == []AmendedExits /\ Advances

C4_Witness ==
    /\ pc = "done"
    /\ PreconditionsPass
    /\ Len(attempts) = 2
    /\ TranscriptionFailed
    /\ rc = Some(1)

WriterFor(fmt) ==
    CASE fmt = "txt"  -> "write_txt"
      [] fmt = "json" -> "write_json"
      [] fmt = "srt"  -> "write_srt"
      [] fmt = "vtt"  -> "write_vtt"

TextOf(writer, segs) ==
    CASE writer = "write_txt"  -> write_txt(segs)
      [] writer = "write_json" -> write_json(segs)
      [] writer = "write_srt"  -> write_srt(segs)
      [] writer = "write_vtt"  -> write_vtt(segs)

\* ext is an extension of the path root \o ext: it starts at a period, holds
\* no other period and no separator, and the file name before it is not
\* made of periods only
IsExtension(root, ext) ==
    /\ ext # <<>>
    /\ ext[1] = "."
    /\ \A i \in 2..Len(ext) : ext[i] \notin {".", "/"}
    /\ \E i \in 1..Len(root) : root[i] # "." /\ \A j \in i..Len(root) : root[j] # "/"

\* the path with its extension, if it has one, replaced by the format name
ExtensionReplaced(p, fmt) ==
    LET ks   == {k \in 0..(Len(p) - 1) :
                    IsExtension(SubSeq(p, 1, k), SubSeq(p, k + 1, Len(p)))}
        root == IF ks = {} THEN p ELSE SubSeq(p, 1, CHOOSE k \in ks : TRUE)
    IN  root \o <<".">> \o FormatChars(fmt)

\* C5 as stated: on a successful transcription main calls exactly one
\* writer, the one of the requested format, with the segments the backend
\* that succeeded returned, and writes to and reports the same destination:
\* the --output value if one was given, otherwise the input path with its
\* extension replaced by the format name.
C5_Dispatch ==
    /\ Len(writes) <= 1
    /\ (pc = "done" /\ TranscriptionSucceeded) =>
        LET destination == IF args.output # None THEN Value(args.output)
                           ELSE ExtensionReplaced(args.input, args.format)
        IN  /\ Len(writes) = 1
            /\ writes[1].writer = WriterFor(args.format)
            /\ writes[1].segments = Value(attempts[Len(attempts)].result)
            /\ writes[1].path = destination
            /\ rc = Some(0) => reported = Some(destination)
            /\ reported # None => reported = Some(destination)

\* C5 amended: on a successful transcription main calls exactly one writer,
\* the one of the requested format, with the segments the backend that
\* succeeded returned, on the destination: the --output value if a
\* non-empty one was given, otherwise the input path with its extension
\* replaced by the format name; it reports that same destination, and the
\* destination then holds what the writer wrote.
C5_DispatchAmended ==
    /\ Len(writes) <= 1
    /\ (pc = "done" /\ TranscriptionSucceeded) =>
        LET destination == IF args.output # None /\ Value(args.output) # <<>>
                           THEN Value(args.output)
                           ELSE ExtensionReplaced(args.input, args.format)
        IN  /\ Len(writes) = 1
            /\ writes[1].writer = WriterFor(args.format)
            /\ writes[1].segments = Value(attempts[Len(attempts)].result)
            /\ writes[1].path = destination
            /\ rc = Some(0) => reported = Some(destination)
            /\ reported # None =>
                /\ reported = Some(destination)
                /\ file = Some(TextOf(WriterFor(args.format), writes[1].segments))

C5_Witness ==
    /\ pc = "done"
    /\ rc = Some(0)
    /\ Len(attempts) = 2
    /\ args.output = Some(<<>>)
    /\ args.format = "srt"
    /\ splitext(args.input)[2] # <<>>
    /\ Value(segments) # <<>>

\* C10 as stated: in any run that ends with exit code 1 or 2 the destination
\* file is left as it was, never opened, created or truncated; the
\* destination is opened only after a backend has returned segments, so a
\* file already there is overwritten only on runs that reach a writer.
C10_FailureLeavesDestination ==
    /\ (pc = "done" /\ ExitStatus \in {Some(1), Some(2)}) => file = env.old_file
    /\ file # env.old_file => writes # <<>>
    /\ writes # <<>> => TranscriptionSucceeded

\* C10 amended: in any run in which main returns 1 or 2 the destination file
\* is left as it was, never opened, created or truncated; the destination
\* is opened only after a backend has returned segments, so a file already
\* there is overwritten only on runs that reach a writer; a run that ends
\* with status 1 because the writer raised may leave the destination
\* created, truncated or partly written.
C10_ReturnedFailureLeavesDestination ==
    /\ (pc = "done" /\ rc \in {Some(1), Some(2)}) => file = env.old_file /\ writes = <<>>
    /\ file # env.old_file => writes # <<>>
    /\ writes # <<>> => TranscriptionSucceeded
    /\ raised => writes # <<>>

C10_Witness ==
    /\ pc = "done"
    /\ rc = Some(1)
    /\ env.old_file # None
    /\ file = env.old_file
    /\ Len(attempts) = 2

====
